---- MODULE Spec2Model ----
(***************************************************************************)
(* getConfig of src/index.ts: one item is fetched from the secret store,   *)
(* every entry of the caller's field map is resolved against the item's   *)
(* field list, and the result is returned in the simple or the detailed    *)
(* shape.                                                                   *)
(*                                                                          *)
(* Encoding of JavaScript values.  A string is a sequence of one-character *)
(* strings ("ab" is <<"a", "b">>, '' is <<>>).  undefined is the           *)
(* one-element sequence <<"undefined">>, which equals no string because    *)
(* its element is not a single character.  An object is a record; null is  *)
(* the record Null.                                                         *)
(***************************************************************************)
EXTENDS Integers, Sequences, FiniteSets, TLC

\* ------------------------------------------------------------------ bounds
MaxFields == 2      \* longest field list of the stored item
MaxCalls == 2       \* concurrent getConfig calls of SpecConc

\* ------------------------------------------------------- JavaScript values
Undefined == <<"undefined">>

Null == [null |-> TRUE]

\* !!x for a string or undefined: '' and undefined are falsy.
Truthy(x) == x # Undefined /\ x # <<>>

LowerChar(ch) ==
    CASE ch = "A" -> "a"
      [] ch = "B" -> "b"
      [] OTHER -> ch

toLowerCase(s) == [i \in 1..Len(s) |-> LowerChar(s[i])]

\* obj[k] = v on a plain object: the own key k is created or overwritten.
SetProp(obj, k, v) ==
    [x \in (DOMAIN obj) \cup {k} |-> IF x = k THEN v ELSE obj[x]]

EmptyObject == <<>>

\* ------------------------------------------------------------ input pools
sa == <<"a">>
sA == <<"A">>
sb == <<"b">>

ItemName == <<"i", "t">>
MissingName == <<"n", "o">>
BlankName == <<"e">>
Names == {ItemName, MissingName, BlankName}

\* A field of the fetched item: {id, label?, value?}.
FieldPool ==
    [id : {sa, sb}, label : {Undefined, sA}, value : {Undefined, <<"x">>}]

RECURSIVE SeqsUpTo(_, _)
SeqsUpTo(S, n) ==
    IF n = 0 THEN {<<>>}
    ELSE LET shorter == SeqsUpTo(S, n - 1)
         IN  shorter \cup {Append(s, e) : s \in {t \in shorter : Len(t) = n - 1}, e \in S}

ItemId == <<"1">>

\* What the store holds under ItemName: an item with a field list, or an
\* item that has no fields property at all.
StoredItems ==
    {[id |-> ItemId, fields |-> fs] : fs \in SeqsUpTo(FieldPool, MaxFields)}
        \cup {[id |-> ItemId]}

\* An object without an id, as the client returns for an empty answer.
BlankItem == [id |-> Undefined]

StoreWith(it) ==
    [n \in Names |->
        IF n = ItemName THEN it ELSE IF n = MissingName THEN Null ELSE BlankItem]

\* ConfigValue = string | ConfigFieldSpec
Bare(s) == [type |-> "string", str |-> s]
Obj(k, d, desc) == [type |-> "object", key |-> k, default |-> d, description |-> desc]

ConfigValues ==
    { Bare(<<"D">>),
      Obj(<<>>, Undefined, Undefined),
      Obj(sb, Undefined, <<"E">>),
      Obj(Undefined, <<"d">>, Undefined),
      Obj(sb, <<"d">>, Undefined) }

DeclaredKeys == {sa, sA}

\* Object.entries(keyOptions): [configKey, configValue] pairs, own keys distinct.
ConfigMaps ==
    {<<>>}
        \cup {<<[key |-> k, value |-> v]>> : k \in DeclaredKeys, v \in ConfigValues}
        \cup {m \in {<<[key |-> k1, value |-> v1], [key |-> k2, value |-> v2]>> :
                        k1 \in DeclaredKeys, k2 \in DeclaredKeys,
                        v1 \in ConfigValues, v2 \in ConfigValues} :
                m[1].key # m[2].key}

\* options: {} , {detailedResult: false}, {detailedResult: true}
OptionsPool == {EmptyObject, [detailedResult |-> FALSE], [detailedResult |-> TRUE]}

Request(n, m, o) == [idOrName |-> n, keyOptions |-> m, options |-> o]

Requests ==
    {Request(ItemName, m, o) : m \in ConfigMaps, o \in OptionsPool}
        \cup {Request(n, m, o) :
                n \in {MissingName, BlankName},
                m \in {<<>>, <<[key |-> sa, value |-> Obj(Undefined, <<"d">>, Undefined)]>>},
                o \in OptionsPool}

\* The smaller pools of the specifications that run several calls at once.
ConcItems ==
    { [id |-> ItemId,
       fields |-> << [id |-> sb, label |-> sA, value |-> <<"x">>] >>],
      [id |-> ItemId,
       fields |-> << [id |-> sa, label |-> Undefined, value |-> Undefined],
                     [id |-> sb, label |-> sA, value |-> <<"x">>] >>] }

ConcMaps ==
    { << [key |-> sa, value |-> Bare(<<"D">>)] >>,
      << [key |-> sA, value |-> Obj(sb, <<"d">>, Undefined)],
         [key |-> sa, value |-> Obj(Undefined, <<"d">>, Undefined)] >> }

ConcRequests ==
    {Request(n, m, o) :
        n \in {ItemName, MissingName}, m \in ConcMaps, o \in OptionsPool}

\* ------------------------------------------------------------ the program
VARIABLES
    store,               \* the secret store: name or UUID -> item, or Null
    pc,                  \* per call: Idle, Fetching, Resolving, Done, Failed
    idOrName,            \* per call: argument
    keyOptions,          \* per call: argument, as Object.entries lists it
    options,             \* per call: argument
    onePConfigResult,    \* per call: what the awaited onePItem.get produced
    fetches,             \* per call: onePItem.get invocations of this call
    next,                \* per call: forEach position in keyOptions
    locals,              \* per call: configKey -> locals of its forEach body
    detailedResult_tmp,  \* per frame: the accumulator of line 76
    result,              \* per call: the resolved promise value
    error                \* per call: the rejection

vars ==
    <<store, pc, idOrName, keyOptions, options, onePConfigResult, fetches,
      next, locals, detailedResult_tmp, result, error>>

Calls == 1..MaxCalls

NoResult == [shape |-> "none", obj |-> EmptyObject]
NoError == <<>>

\* Variant: the accumulator hoisted to module scope, one for all calls.
frame_shared(c) == 1

\* const detailedResult_tmp = {} is a local of the invocation: one per call.
frame(c) == c

\* onePItem.get(idOrName), answered by the store.
onePItem_get(st, name) == st[name]

\* Variant: only the null answer counts as missing.
ItemMissing_nullOnly(r) == r = Null

\* line 71: !onePConfigResult || !onePConfigResult.id
ItemMissing(r) == r = Null \/ ~Truthy(r.id)

\* line 72: new Error(`Item with name or UUID "${idOrName}" not found.`)
NotFoundError(name) ==
    <<"Item with name or UUID \"">> \o name \o <<"\" not found.">>

\* Variant: the label compared as written, without lower-casing.
FieldMatches_labelCaseSensitive(f, fieldId) ==
    \/ f.id = fieldId
    \/ f.label = fieldId

\* lines 43-44: the predicate handed to find.
FieldMatches(f, fieldId) ==
    \/ f.id = fieldId
    \/ /\ f.label # Undefined
       /\ toLowerCase(f.label) = toLowerCase(fieldId)

\* Variant: the first matching field that has a value (a filter on value
\* inside the predicate).
RECURSIVE find_skipUndefined(_, _, _)
find_skipUndefined(fields, fieldId, i) ==
    IF i > Len(fields) THEN <<>>
    ELSE IF FieldMatches(fields[i], fieldId) /\ fields[i].value # Undefined
         THEN <<fields[i]>>
    ELSE find_skipUndefined(fields, fieldId, i + 1)

\* Array.prototype.find from position i: the first element that satisfies
\* the predicate, as a list of one element, or the empty list.
RECURSIVE find(_, _, _)
find(fields, fieldId, i) ==
    IF i > Len(fields) THEN <<>>
    ELSE IF FieldMatches(fields[i], fieldId) THEN <<fields[i]>>
    ELSE find(fields, fieldId, i + 1)

\* lines 41-48: item.fields?.find(...) then field?.value
getFieldValue(item, fieldId) ==
    IF "fields" \notin DOMAIN item THEN Undefined
    ELSE LET field == find(item.fields, fieldId, 1)
         IN  IF field = <<>> THEN Undefined ELSE field[1].value

\* Variant: spec.key ignored.
fieldKeyOf_alwaysDeclared(configKey, configValue) == configKey

\* lines 83-92: fieldKey of an entry.
fieldKeyOf(configKey, configValue) ==
    IF configValue.type = "string" THEN configKey
    ELSE IF Truthy(configValue.key) THEN configValue.key ELSE configKey

\* Variant: matched computed from the final value, so a default sets it.
resolveEntry_matchedByFinal(item, configKey, configValue) ==
    LET key == fieldKeyOf(configKey, configValue)
        defaultValue ==
            IF configValue.type = "string" THEN Undefined ELSE configValue.default
        description ==
            IF configValue.type = "string" THEN configValue.str
            ELSE configValue.description
        foundValue == getFieldValue(item, key)
        finalValue == IF foundValue # Undefined THEN foundValue ELSE defaultValue
        matched == finalValue # Undefined
    IN  [fieldKey |-> key, defaultValue |-> defaultValue,
         description |-> description, foundValue |-> foundValue,
         matched |-> matched, finalValue |-> finalValue]

\* Variant: the default wins over the value found in the item.
resolveEntry_defaultFirst(item, configKey, configValue) ==
    LET r == resolveEntry_matchedByFinal(item, configKey, configValue)
        matched == r.foundValue # Undefined
    IN  [r EXCEPT !.matched = matched,
                  !.finalValue =
                      IF r.defaultValue # Undefined THEN r.defaultValue
                      ELSE r.foundValue]

\* lines 79-96: the locals of one forEach body.
resolveEntry(item, configKey, configValue) ==
    LET fieldKey == fieldKeyOf(configKey, configValue)
        defaultValue ==
            IF configValue.type = "string" THEN Undefined ELSE configValue.default
        description ==
            IF configValue.type = "string" THEN configValue.str
            ELSE configValue.description
        foundValue == getFieldValue(item, fieldKey)
        matched == foundValue # Undefined
        finalValue == IF matched THEN foundValue ELSE defaultValue
    IN  [fieldKey |-> fieldKey, defaultValue |-> defaultValue,
         description |-> description, foundValue |-> foundValue,
         matched |-> matched, finalValue |-> finalValue]

\* Variant: an entry without value is not stored.
storeResult_skipAbsent(tmp, configKey, r) ==
    IF r.finalValue = Undefined THEN tmp
    ELSE SetProp(tmp, configKey,
                 [value |-> r.finalValue, matched |-> r.matched,
                  description |-> r.description])

\* lines 98-102: detailedResult_tmp[configKey] = {value, matched, description}
storeResult(tmp, configKey, r) ==
    SetProp(tmp, configKey,
            [value |-> r.finalValue, matched |-> r.matched,
             description |-> r.description])

\* Variant: keys without value are left out of the simple shape.
simpleResult_dropAbsent(tmp) ==
    [k \in {x \in DOMAIN tmp : tmp[x].value # Undefined} |-> tmp[k].value]

\* lines 110-113: simpleResult[key] = result.value for every entry of tmp.
simpleResult(tmp) == [k \in DOMAIN tmp |-> tmp[k].value]

\* line 75: const { detailedResult = false } = options
detailedResult(o) ==
    IF "detailedResult" \in DOMAIN o THEN o.detailedResult ELSE FALSE

TypeOK ==
    /\ pc \in [Calls -> {"Idle", "Fetching", "Resolving", "Done", "Failed"}]
    /\ fetches \in [Calls -> Nat]
    /\ next \in [Calls -> Nat]

InitCalls ==
    /\ pc = [c \in Calls |-> "Idle"]
    /\ idOrName = [c \in Calls |-> Undefined]
    /\ keyOptions = [c \in Calls |-> <<>>]
    /\ options = [c \in Calls |-> EmptyObject]
    /\ onePConfigResult = [c \in Calls |-> Null]
    /\ fetches = [c \in Calls |-> 0]
    /\ next = [c \in Calls |-> 0]
    /\ locals = [c \in Calls |-> EmptyObject]
    /\ detailedResult_tmp = [c \in Calls |-> EmptyObject]
    /\ result = [c \in Calls |-> NoResult]
    /\ error = [c \in Calls |-> NoError]

Init ==
    /\ store \in {StoreWith(it) : it \in StoredItems}
    /\ InitCalls

\* getConfig(idOrName, keyOptions, options) up to its await (line 70): the
\* arguments are bound and onePItem.get is invoked once.
CallWith(c, reqs) ==
    /\ pc[c] = "Idle"
    /\ \E req \in reqs :
        /\ idOrName' = [idOrName EXCEPT ![c] = req.idOrName]
        /\ keyOptions' = [keyOptions EXCEPT ![c] = req.keyOptions]
        /\ options' = [options EXCEPT ![c] = req.options]
        /\ onePConfigResult' =
              [onePConfigResult EXCEPT ![c] = onePItem_get(store, req.idOrName)]
    /\ fetches' = [fetches EXCEPT ![c] = @ + 1]
    /\ pc' = [pc EXCEPT ![c] = "Fetching"]
    /\ UNCHANGED <<store, next, locals, detailedResult_tmp, result, error>>

Call(c) == CallWith(c, Requests)

\* Variant: a missing item is fetched a second time before the call fails.
Resume_retry(c) ==
    /\ pc[c] = "Fetching"
    /\ IF ItemMissing(onePConfigResult[c]) /\ fetches[c] < 2
       THEN /\ onePConfigResult' =
                  [onePConfigResult EXCEPT ![c] = onePItem_get(store, idOrName[c])]
            /\ fetches' = [fetches EXCEPT ![c] = @ + 1]
            /\ UNCHANGED <<pc, next, detailedResult_tmp, error>>
       ELSE /\ IF ItemMissing(onePConfigResult[c])
               THEN /\ error' = [error EXCEPT ![c] = NotFoundError(idOrName[c])]
                    /\ pc' = [pc EXCEPT ![c] = "Failed"]
                    /\ UNCHANGED <<next, detailedResult_tmp>>
               ELSE /\ detailedResult_tmp' =
                          [detailedResult_tmp EXCEPT ![frame(c)] = EmptyObject]
                    /\ next' = [next EXCEPT ![c] = 1]
                    /\ pc' = [pc EXCEPT ![c] = "Resolving"]
                    /\ UNCHANGED error
            /\ UNCHANGED <<onePConfigResult, fetches>>
    /\ UNCHANGED <<store, idOrName, keyOptions, options, locals, result>>

\* The continuation of the await, lines 71-76: throw on a missing item,
\* otherwise start the pass with an empty accumulator.
Resume(c) ==
    /\ pc[c] = "Fetching"
    /\ IF ItemMissing(onePConfigResult[c])
       THEN /\ error' = [error EXCEPT ![c] = NotFoundError(idOrName[c])]
            /\ pc' = [pc EXCEPT ![c] = "Failed"]
            /\ UNCHANGED <<next, detailedResult_tmp>>
       ELSE /\ detailedResult_tmp' =
                  [detailedResult_tmp EXCEPT ![frame(c)] = EmptyObject]
            /\ next' = [next EXCEPT ![c] = 1]
            /\ pc' = [pc EXCEPT ![c] = "Resolving"]
            /\ UNCHANGED error
    /\ UNCHANGED <<store, idOrName, keyOptions, options, onePConfigResult,
                   fetches, locals, result>>

\* One forEach body, lines 78-103.
ResolveField(c) ==
    /\ pc[c] = "Resolving"
    /\ next[c] <= Len(keyOptions[c])
    /\ LET configKey == keyOptions[c][next[c]].key
           configValue == keyOptions[c][next[c]].value
           r == resolveEntry(onePConfigResult[c], configKey, configValue)
       IN  /\ locals' = [locals EXCEPT ![c] = SetProp(@, configKey, r)]
           /\ detailedResult_tmp' =
                 [detailedResult_tmp EXCEPT
                    ![frame(c)] = storeResult(@, configKey, r)]
    /\ next' = [next EXCEPT ![c] = @ + 1]
    /\ UNCHANGED <<store, pc, idOrName, keyOptions, options, onePConfigResult,
                   fetches, result, error>>

\* Lines 105-115: the shape the options select.
Shape(c) ==
    /\ pc[c] = "Resolving"
    /\ next[c] > Len(keyOptions[c])
    /\ result' =
          [result EXCEPT ![c] =
              IF detailedResult(options[c])
              THEN [shape |-> "detailed", obj |-> detailedResult_tmp[frame(c)]]
              ELSE [shape |-> "simple",
                    obj |-> simpleResult(detailedResult_tmp[frame(c)])]]
    /\ pc' = [pc EXCEPT ![c] = "Done"]
    /\ UNCHANGED <<store, idOrName, keyOptions, options, onePConfigResult,
                   fetches, next, locals, detailedResult_tmp, error>>

\* The caller has taken the settled promise; the invocation's data is gone.
Return(c) ==
    /\ pc[c] \in {"Done", "Failed"}
    /\ pc' = [pc EXCEPT ![c] = "Idle"]
    /\ idOrName' = [idOrName EXCEPT ![c] = Undefined]
    /\ keyOptions' = [keyOptions EXCEPT ![c] = <<>>]
    /\ options' = [options EXCEPT ![c] = EmptyObject]
    /\ onePConfigResult' = [onePConfigResult EXCEPT ![c] = Null]
    /\ fetches' = [fetches EXCEPT ![c] = 0]
    /\ next' = [next EXCEPT ![c] = 0]
    /\ locals' = [locals EXCEPT ![c] = EmptyObject]
    /\ detailedResult_tmp' = [detailedResult_tmp EXCEPT ![frame(c)] = EmptyObject]
    /\ result' = [result EXCEPT ![c] = NoResult]
    /\ error' = [error EXCEPT ![c] = NoError]
    /\ UNCHANGED store

\* One caller, every request.
Next ==
    \/ Call(1)
    \/ Resume(1)
    \/ ResolveField(1)
    \/ Shape(1)
    \/ Return(1)

Spec == Init /\ [][Next]_vars

\* Several callers at once.  The continuation of the await runs to completion
\* in the program; here its steps may interleave with other calls' steps,
\* which only adds behaviours.
InitConc ==
    /\ store \in {StoreWith(it) : it \in ConcItems}
    /\ InitCalls

CallConc(c) == CallWith(c, ConcRequests)

NextConc ==
    \E c \in Calls :
        \/ CallConc(c)
        \/ Resume(c)
        \/ ResolveField(c)
        \/ Shape(c)
        \/ Return(c)

SpecConc == InitConc /\ [][NextConc]_vars

\* One caller; a continuation that is ready runs: the event loop never drops
\* a settled await, and the synchronous pass that follows cannot be preempted.
SpecFair ==
    /\ InitConc
    /\ [][Next]_vars
    /\ WF_vars(Resume(1))
    /\ WF_vars(ResolveField(1))
    /\ WF_vars(Shape(1))

\* ----------------------------------------------------- reading the state
\* What follows states the properties on their own terms: the matching rule
\* and the lookup are written out again, declaratively, so that they do not
\* move with the definitions above.
DeclaredKeySet(c) == {keyOptions[c][i].key : i \in 1..Len(keyOptions[c])}

SpecOf(c, k) ==
    keyOptions[c][CHOOSE i \in 1..Len(keyOptions[c]) : keyOptions[c][i].key = k].value

IsBare(v) == v.type = "string"

DefaultOf(v) == IF IsBare(v) THEN Undefined ELSE v.default

MatchesKey(f, k) ==
    \/ f.id = k
    \/ /\ f.label # Undefined
       /\ toLowerCase(f.label) = toLowerCase(k)

FieldsOf(item) == IF "fields" \in DOMAIN item THEN item.fields ELSE <<>>

\* The positions of the first field that matches k: one position or none.
FirstMatch(item, k) ==
    {i \in 1..Len(FieldsOf(item)) :
        /\ MatchesKey(FieldsOf(item)[i], k)
        /\ \A j \in 1..(i - 1) : ~MatchesKey(FieldsOf(item)[j], k)}

\* The value of the first field that matches k, undefined when none does.
FirstMatchValue(item, k) ==
    IF FirstMatch(item, k) = {} THEN Undefined
    ELSE FieldsOf(item)[CHOOSE i \in FirstMatch(item, k) : TRUE].value

Resolved(c) == pc[c] \in {"Resolving", "Done"}

ValueIn(c, k) ==
    IF result[c].shape = "detailed" THEN result[c].obj[k].value ELSE result[c].obj[k]

C1_WitnessEmptyMap ==
    /\ pc[1] = "Done"
    /\ keyOptions[1] = <<>>
    /\ Len(FieldsOf(onePConfigResult[1])) > 0

\* ------------------------------------------------------------------- C2
\* C2: in the detailed result, matched is true exactly when the field the
\* lookup selects (the first one matching the lookup key by identifier or by
\* case-insensitive label) has a defined value; a default never sets it.
C2_MatchedIffFoundDefined ==
    \A c \in Calls :
        (pc[c] = "Done" /\ result[c].shape = "detailed") =>
            \A k \in DOMAIN result[c].obj :
                result[c].obj[k].matched
                    <=> FirstMatchValue(onePConfigResult[c],
                                        locals[c][k].fieldKey) # Undefined

\* A detailed result holding a default for an unmatched field next to a
\* matched field.
C2_Witness ==
    /\ pc[1] = "Done"
    /\ result[1].shape = "detailed"
    /\ \E k \in DOMAIN result[1].obj :
          /\ ~result[1].obj[k].matched
          /\ result[1].obj[k].value = <<"d">>
    /\ \E k \in DOMAIN result[1].obj : result[1].obj[k].matched

\* ------------------------------------------------------------------- C3
\* C3: the value of a declared field is the value found in the item when the
\* field matched, otherwise the default of its spec, which is absent for a
\* bare string and for a structured spec without default.
C3_ValueFoundElseDefault ==
    \A c \in Calls :
        pc[c] = "Done" =>
            \A k \in DOMAIN result[c].obj :
                ValueIn(c, k) =
                    IF locals[c][k].matched
                    THEN FirstMatchValue(onePConfigResult[c], locals[c][k].fieldKey)
                    ELSE DefaultOf(SpecOf(c, k))

\* A matched field whose spec also gives a default, and an unmatched bare
\* string, in one result.
C3_Witness ==
    /\ pc[1] = "Done"
    /\ \E k \in DOMAIN locals[1] :
          locals[1][k].matched /\ DefaultOf(SpecOf(1, k)) # Undefined
    /\ \E k \in DOMAIN locals[1] :
          ~locals[1][k].matched /\ IsBare(SpecOf(1, k))

\* ------------------------------------------------------------------- C4
\* C4 as stated: the lookup key is the declared key for a bare string, and
\* for a structured spec it is spec.key whenever spec.key is present.
C4_LookupKeyWhenPresent ==
    \A c \in Calls :
        Resolved(c) =>
            \A k \in DOMAIN locals[c] :
                locals[c][k].fieldKey =
                    IF IsBare(SpecOf(c, k)) THEN k
                    ELSE IF SpecOf(c, k).key # Undefined THEN SpecOf(c, k).key
                    ELSE k

\* C4, amended: the lookup key is the declared key for a bare string; for a
\* structured spec it is spec.key when spec.key is present and not the empty
\* string, and the declared key otherwise; the entry resolves against that
\* key.
C4_LookupKeyWhenNonEmpty ==
    \A c \in Calls :
        Resolved(c) =>
            \A k \in DOMAIN locals[c] :
                LET v == SpecOf(c, k)
                    lookupKey ==
                        IF IsBare(v) THEN k
                        ELSE IF v.key # Undefined /\ v.key # <<>> THEN v.key
                        ELSE k
                IN  /\ locals[c][k].fieldKey = lookupKey
                    /\ locals[c][k].foundValue =
                          FirstMatchValue(onePConfigResult[c], lookupKey)

\* A structured spec with key 'b' under a declared key that the item would
\* answer differently.
C4_Witness ==
    /\ Resolved(1)
    /\ \E k \in DOMAIN locals[1] :
          /\ ~IsBare(SpecOf(1, k))
          /\ SpecOf(1, k).key = sb
          /\ locals[1][k].foundValue
                # FirstMatchValue(onePConfigResult[1], k)

\* ------------------------------------------------------------------- C5
\* C5: a call whose identifier names no item in the store fails with the
\* not-found error that quotes the identifier, and produces no result, not
\* even one built from defaults.
NoItemFor(name) == store[name] = Null \/ store[name].id = Undefined

C5_MissingItemFailsWholeCall ==
    \A c \in Calls :
        (pc[c] \in {"Resolving", "Done", "Failed"} /\ NoItemFor(idOrName[c])) =>
            /\ pc[c] = "Failed"
            /\ error[c] =
                  <<"Item with name or UUID \"">> \o idOrName[c]
                      \o <<"\" not found.">>
            /\ result[c] = NoResult
            /\ locals[c] = EmptyObject

\* A failed call for a missing item whose field map carried a default, and
\* one for an answer without id.
C5_Witness ==
    /\ pc[1] = "Failed"
    /\ idOrName[1] = MissingName
    /\ Len(keyOptions[1]) = 1

C5_WitnessBlank ==
    /\ pc[1] = "Failed"
    /\ idOrName[1] = BlankName

\* ------------------------------------------------------------------- C6
\* C6: for the same identifier, field map and store, the simple result is
\* the detailed result with every entry replaced by its value.
C6_SimpleIsProjectionOfDetailed ==
    \A c1 \in Calls, c2 \in Calls :
        ( /\ pc[c1] = "Done"
          /\ pc[c2] = "Done"
          /\ idOrName[c1] = idOrName[c2]
          /\ keyOptions[c1] = keyOptions[c2]
          /\ result[c1].shape = "detailed"
          /\ options[c2] \in {EmptyObject, [detailedResult |-> FALSE]} ) =>
            /\ result[c2].shape = "simple"
            /\ result[c2].obj =
                  [k \in DOMAIN result[c1].obj |-> result[c1].obj[k].value]

\* The two shapes of one request side by side, with an absent value in them.
C6_Witness ==
    /\ pc[1] = "Done"
    /\ pc[2] = "Done"
    /\ idOrName[1] = idOrName[2]
    /\ keyOptions[1] = keyOptions[2]
    /\ result[1].shape = "detailed"
    /\ options[2] = EmptyObject
    /\ \E k \in DOMAIN result[1].obj : result[1].obj[k].value = Undefined

C6_WitnessExplicitFalse ==
    /\ pc[1] = "Done"
    /\ pc[2] = "Done"
    /\ idOrName[1] = idOrName[2]
    /\ keyOptions[1] = keyOptions[2]
    /\ Len(keyOptions[1]) = 2
    /\ result[1].shape = "detailed"
    /\ options[2] = [detailedResult |-> FALSE]

\* ------------------------------------------------------------------- C7
\* C7: the lookup of key k yields the value of the first field, in list
\* order, whose identifier equals k or whose lower-cased label equals k
\* lower-cased, and not found when no field is such.
C7_FirstMatchByIdOrLabel ==
    \A c \in Calls :
        Resolved(c) =>
            \A k \in DOMAIN locals[c] :
                LET key == locals[c][k].fieldKey
                    item == onePConfigResult[c]
                IN  /\ locals[c][k].foundValue = FirstMatchValue(item, key)
                    /\ (FirstMatch(item, key) = {}
                            => locals[c][k].foundValue = Undefined)

\* The first field matches by label only (its identifier differs from the
\* key and the cases differ) and a later field matches by identifier.
C7_Witness ==
    /\ Resolved(1)
    /\ \E k \in DOMAIN locals[1] :
          LET key == locals[1][k].fieldKey
              fs == FieldsOf(onePConfigResult[1])
          IN  /\ Len(fs) = 2
              /\ fs[1].id # key
              /\ fs[1].label # Undefined
              /\ fs[1].label # key
              /\ fs[1].value # Undefined
              /\ fs[2].id = key
              /\ fs[2].value = Undefined
              /\ locals[1][k].foundValue = fs[1].value

\* No field matches: the identifier differs only by case and there is no label.
C7_WitnessNotFound ==
    /\ Resolved(1)
    /\ \E k \in DOMAIN locals[1] :
          LET key == locals[1][k].fieldKey
              fs == FieldsOf(onePConfigResult[1])
          IN  /\ Len(fs) > 0
              /\ \E i \in 1..Len(fs) : toLowerCase(fs[i].id) = toLowerCase(key)
              /\ FirstMatch(onePConfigResult[1], key) = {}

\* ------------------------------------------------------------------- C8
InFlight(c) == pc[c] \in {"Fetching", "Resolving", "Done", "Failed"}

LifecycleState(c) ==
    /\ InFlight(c) => fetches[c] = 1
    /\ pc[c] = "Idle" => fetches[c] = 0
    /\ pc[c] = "Resolving" => error[c] = NoError /\ result[c] = NoResult
    /\ pc[c] = "Done" =>
          /\ error[c] = NoError
          /\ result[c].shape \in {"simple", "detailed"}
    /\ pc[c] = "Failed" => error[c] # NoError /\ result[c] = NoResult

LifecycleStep(c) ==
    pc'[c] # pc[c] =>
        <<pc[c], pc'[c]>> \in
            { <<"Idle", "Fetching">>, <<"Fetching", "Resolving">>,
              <<"Fetching", "Failed">>, <<"Resolving", "Done">>,
              <<"Done", "Idle">>, <<"Failed", "Idle">> }

\* C8: a call moves Idle -> Fetching -> Resolving -> Done or Idle -> Fetching
\* -> Failed and in no other way; while it is in flight the item has been
\* fetched exactly once; Failed is entered from Fetching only; and a call
\* that has its item always reaches Done with a shaped result.
C8_Lifecycle ==
    /\ [](\A c \in Calls : LifecycleState(c))
    /\ [][\A c \in Calls : LifecycleStep(c)]_vars
    /\ \A c \in Calls : (pc[c] = "Resolving") ~> (pc[c] = "Done")
    /\ \A c \in Calls : (pc[c] = "Fetching") ~> (pc[c] \in {"Done", "Failed"})

\* A done call one of whose fields was unmatched and had no default.
C8_Witness ==
    /\ pc[1] = "Done"
    /\ fetches[1] = 1
    /\ \E k \in DOMAIN locals[1] :
          ~locals[1][k].matched /\ locals[1][k].finalValue = Undefined

C8_WitnessFailed ==
    /\ pc[1] = "Failed"
    /\ fetches[1] = 1

\* ------------------------------------------------------------------- C9
\* What a call returns when nothing else runs, written from the rules of
\* matching and resolution.
ExpectedEntry(item, k, v) ==
    LET lookupKey ==
            IF IsBare(v) THEN k
            ELSE IF v.key # Undefined /\ v.key # <<>> THEN v.key
            ELSE k
        found == FirstMatchValue(item, lookupKey)
    IN  [value |-> IF found # Undefined THEN found ELSE DefaultOf(v),
         matched |-> found # Undefined,
         description |-> IF IsBare(v) THEN v.str ELSE v.description]

ExpectedResult(st, name, entries, opts) ==
    LET keys == {entries[i].key : i \in 1..Len(entries)}
        specOf(k) == entries[CHOOSE i \in 1..Len(entries) : entries[i].key = k].value
        wantDetailed == opts = [detailedResult |-> TRUE]
    IN  IF wantDetailed
        THEN [shape |-> "detailed",
              obj |-> [k \in keys |-> ExpectedEntry(st[name], k, specOf(k))]]
        ELSE [shape |-> "simple",
              obj |-> [k \in keys |-> ExpectedEntry(st[name], k, specOf(k)).value]]

\* C9: under every interleaving of the calls, with the store unchanged, a
\* done call holds exactly the result of running alone on its own arguments,
\* a failed call holds the error for its own identifier, and no call ever
\* holds a key that its own field map does not declare.
C9_CallsAreIndependent ==
    \A c \in Calls :
        /\ pc[c] = "Done" =>
              result[c] =
                  ExpectedResult(store, idOrName[c], keyOptions[c], options[c])
        /\ pc[c] = "Failed" =>
              /\ NoItemFor(idOrName[c])
              /\ error[c] =
                    <<"Item with name or UUID \"">> \o idOrName[c]
                        \o <<"\" not found.">>
        /\ DOMAIN result[c].obj \subseteq DeclaredKeySet(c)

\* Two calls with different field maps in their passes at the same time,
\* each with an entry resolved.
C9_Witness ==
    /\ pc[1] = "Resolving"
    /\ pc[2] = "Resolving"
    /\ DeclaredKeySet(1) # DeclaredKeySet(2)
    /\ next[1] = 2
    /\ next[2] = 2

\* Both done, on different arguments, with different results.
C9_WitnessDone ==
    /\ pc[1] = "Done"
    /\ pc[2] = "Done"
    /\ keyOptions[1] # keyOptions[2]
    /\ result[1].obj # result[2].obj

\* ------------------------------------------------------------------ C10
\* C10: when the first field that matches the lookup key has an undefined
\* value, the declared field is unmatched and its value is the default or
\* absent, whatever the later fields hold.
C10_FirstMatchUndefinedIsNotFound ==
    \A c \in Calls :
        Resolved(c) =>
            \A k \in DOMAIN locals[c] :
                LET key == locals[c][k].fieldKey
                    item == onePConfigResult[c]
                    hit == FirstMatch(item, key)
                IN  (hit # {} /\ \A i \in hit : FieldsOf(item)[i].value = Undefined) =>
                        /\ ~locals[c][k].matched
                        /\ locals[c][k].finalValue = DefaultOf(SpecOf(c, k))
                        /\ pc[c] = "Done" =>
                              ValueIn(c, k) = DefaultOf(SpecOf(c, k))

\* The first matching field is empty, a later field matches the same key and
\* has a value, and the result carries the default.
C10_Witness ==
    /\ pc[1] = "Done"
    /\ \E k \in DOMAIN locals[1] :
          LET key == locals[1][k].fieldKey
              fs == FieldsOf(onePConfigResult[1])
          IN  /\ Len(fs) = 2
              /\ MatchesKey(fs[1], key)
              /\ fs[1].value = Undefined
              /\ MatchesKey(fs[2], key)
              /\ fs[2].value # Undefined
              /\ ValueIn(1, k) = <<"d">>

====
